---- MODULE Spec2Model ----
(***************************************************************************)
(* Model of avian_na_ha_pipeline.py: the NA stalk-length / HA GLS-count    *)
(* pipeline (subcommands na, ha, merge) and the pure functions they call.  *)
(*                                                                         *)
(* Strings are sequences of one-character strings, positions are 0-based   *)
(* as in Python.  An optional value (Python None) is the empty tuple, a    *)
(* present value x is the one-element tuple <<x>>.                         *)
(***************************************************************************)
EXTENDS Integers, Sequences, FiniteSets, TLC

VARIABLES
    pc,          \* position of the run: "call"/"returned" or "main"/"exit"
    call,        \* the function call under check: name and arguments
    ret,         \* what that call returned or raised
    a,           \* the argparse Namespace of the invocation
    files,       \* the files the invocation reads and writes
    exit_code,   \* process exit status, -1 while running
    err,         \* the fatal message or exception that ended the invocation
    stalk_bounds,\* run_na's (s_idx, e_idx), None until resolved
    join_order   \* row order the installed pandas gives a non-sorted inner join

vars == <<pc, call, ret, a, files, exit_code, err, stalk_bounds, join_order>>

---------------------------------------------------------------------------
(* Bounds of the checked input domains *)

MaxRefLen == 4      \* length of a reference sequence given to find_stalk_bounds
MaxOffset == 1      \* magnitude of start_offset / end_offset
MaxSeqLen == 4      \* length of a sequence given to extract_stalk_lengths
MaxGlsLen == 5      \* length of a sequence given to count_gls_motifs
MaxDfRows == 3      \* rows of a frame given to filter_by_date
MaxRecords == 2     \* records of a FASTA file
MaxCsvRows == 2     \* rows of a CSV table given to merge

---------------------------------------------------------------------------
(* Python values *)

None == <<>>
Some(x) == <<x>>
IsNone(o) == o = <<>>
Val(o) == o[1]

\* truthiness of an Optional[str]: None and "" are falsy.  Truthy is for a
\* string of characters, TruthyPath for a file path (an atomic string).
Truthy(o) == o # None /\ Val(o) # <<>>
TruthyPath(o) == o # None /\ Val(o) # ""

Min(x, y) == IF x <= y THEN x ELSE y
Max(x, y) == IF x >= y THEN x ELSE y

\* s[start:stop] with Python's handling of negative and out-of-range indices
SliceIndex(i, n) == IF i < 0 THEN Max(i + n, 0) ELSE Min(i, n)

\* a slice that takes the character at stop as well
PySlice_inclusive(s, start, stop) ==
    LET lo == SliceIndex(start, Len(s))
        hi == SliceIndex(stop + 1, Len(s))
    IN  IF lo < hi THEN SubSeq(s, lo + 1, hi) ELSE <<>>

PySlice(s, start, stop) ==
    LET lo == SliceIndex(start, Len(s))
        hi == SliceIndex(stop, Len(s))
    IN  IF lo < hi THEN SubSeq(s, lo + 1, hi) ELSE <<>>

\* s.replace("-", "")
StripGaps(s) == SelectSeq(s, LAMBDA c : c # "-")

\* character folding done by re.IGNORECASE
Fold(c) ==
    CASE c = "m" -> "M"
      [] c = "k" -> "K"
      [] c = "t" -> "T"
      [] c = "v" -> "V"
      [] c = "n" -> "N"
      [] OTHER   -> c

\* str <= str : lexicographic, a proper prefix is smaller.  Characters of a
\* date string are modelled by their digit values.
RECURSIVE StrLeq(_, _)
StrLeq(x, y) ==
    IF x = <<>> THEN TRUE
    ELSE IF y = <<>> THEN FALSE
    ELSE IF Head(x) < Head(y) THEN TRUE
    ELSE IF Head(x) > Head(y) THEN FALSE
    ELSE StrLeq(Tail(x), Tail(y))

---------------------------------------------------------------------------
(* filter_by_date *)

\* out[(out["Date"].isna()) | (out["Date"] >= min_date)]
MinMask(row, min_date) == IsNone(row.Date) \/ StrLeq(Val(min_date), Val(row.Date))

\* an exclusive upper bound
MaxMask_exclusive(row, max_date) ==
    IsNone(row.Date) \/ (StrLeq(Val(row.Date), Val(max_date)) /\ Val(row.Date) # Val(max_date))

\* out[(out["Date"].isna()) | (out["Date"] <= max_date)]
MaxMask(row, max_date) == IsNone(row.Date) \/ StrLeq(Val(row.Date), Val(max_date))

filter_by_date(df, min_date, max_date) ==
    LET out1 == IF Truthy(min_date)
                THEN SelectSeq(df, LAMBDA r : MinMask(r, min_date))
                ELSE df
    IN  IF Truthy(max_date)
        THEN SelectSeq(out1, LAMBDA r : MaxMask(r, max_date))
        ELSE out1

---------------------------------------------------------------------------
(* find_stalk_bounds *)

\* the literal pattern pat matches s at 0-based position i, ignoring case
MatchAt(pat, s, i) ==
    /\ i + Len(pat) <= Len(s)
    /\ \A k \in 1..Len(pat) : Fold(s[i + k]) = Fold(pat[k])

\* re.search(pat, s, re.IGNORECASE) for a literal pattern: the leftmost match,
\* as an optional [start, end], scanning from position i
RECURSIVE SearchFrom(_, _, _)
SearchFrom(pat, s, i) ==
    IF i + Len(pat) > Len(s) THEN None
    ELSE IF MatchAt(pat, s, i) THEN Some([start |-> i, end |-> i + Len(pat)])
    ELSE SearchFrom(pat, s, i + 1)

re_search(pat, s) == SearchFrom(pat, s, 0)

Raise(type, msg) == [raised |-> TRUE, type |-> type, msg |-> msg, value |-> <<>>]
Return(v) == [raised |-> FALSE, type |-> "", msg |-> "", value |-> v]

\* find_stalk_bounds accepting start = end
find_stalk_bounds_allow_equal(reference_seq, begin_regex, end_regex, start_offset, end_offset) ==
    LET m_begin == re_search(begin_regex, reference_seq)
        m_end   == re_search(end_regex, reference_seq)
    IN  IF IsNone(m_begin) \/ IsNone(m_end)
        THEN Raise("ValueError", "Begin and/or end motifs not located in reference. Adjust regex/offsets.")
        ELSE LET start_idx == Val(m_begin).end + start_offset
                 end_idx   == Val(m_end).start + end_offset
             IN  IF start_idx > end_idx
                 THEN Raise("ValueError", "Computed stalk start >= end. Check regex/offsets.")
                 ELSE Return(<<start_idx, end_idx>>)

find_stalk_bounds(reference_seq, begin_regex, end_regex, start_offset, end_offset) ==
    LET m_begin == re_search(begin_regex, reference_seq)
        m_end   == re_search(end_regex, reference_seq)
    IN  IF IsNone(m_begin) \/ IsNone(m_end)
        THEN Raise("ValueError", "Begin and/or end motifs not located in reference. Adjust regex/offsets.")
        ELSE LET start_idx == Val(m_begin).end + start_offset
                 end_idx   == Val(m_end).start + end_offset
             IN  IF start_idx >= end_idx
                 THEN Raise("ValueError", "Computed stalk start >= end. Check regex/offsets.")
                 ELSE Return(<<start_idx, end_idx>>)

---------------------------------------------------------------------------
(* extract_stalk_lengths *)

\* the slice's length with its gaps counted
StalkLength_keep_gaps(seq, stalk_start, stalk_end) ==
    Len(PySlice(seq, stalk_start, stalk_end))

\* seq[stalk_start:stalk_end].replace("-", "").__len__()
StalkLength(seq, stalk_start, stalk_end) ==
    Len(StripGaps(PySlice(seq, stalk_start, stalk_end)))

\* a row with one more column
WithColumn(row, name, v) == (name :> v) @@ row

\* adds the column Stalk_length to every row
extract_stalk_lengths(df, stalk_start, stalk_end) ==
    [i \in 1..Len(df) |->
        WithColumn(df[i], "Stalk_length",
                   StalkLength(df[i].Sequence, stalk_start, stalk_end))]

---------------------------------------------------------------------------
(* count_gls_motifs *)

\* _GLS_RE = [Nn][^Pp][SsTt] matches s at 0-based position i
GlsMatchAt(s, i) ==
    /\ i + 3 <= Len(s)
    /\ s[i + 1] \in {"N", "n"}
    /\ s[i + 2] \notin {"P", "p"}
    /\ s[i + 3] \in {"S", "s", "T", "t"}

\* a scan that counts overlapping matches
RECURSIVE FindallCount_overlapping(_, _)
FindallCount_overlapping(s, i) ==
    IF i + 3 > Len(s) THEN 0
    ELSE IF GlsMatchAt(s, i) THEN 1 + FindallCount_overlapping(s, i + 1)
    ELSE FindallCount_overlapping(s, i + 1)

\* len(_GLS_RE.findall(s)): after a match the scan resumes behind it
RECURSIVE FindallCount(_, _)
FindallCount(s, i) ==
    IF i + 3 > Len(s) THEN 0
    ELSE IF GlsMatchAt(s, i) THEN 1 + FindallCount(s, i + 3)
    ELSE FindallCount(s, i + 1)

GlsCount(seq) == FindallCount(StripGaps(seq), 0)

count_gls_motifs(sequences) == [i \in 1..Len(sequences) |-> GlsCount(sequences[i])]

---------------------------------------------------------------------------
(* FASTA reading and header metadata *)

\* A FASTA record is [Header, Sequence]; a header is the sequence of its
\* tokens, each [kind, text] with kind "epi" (text matches EPI_ISL_\d+),
\* "date" (text matches \d{4}-\d{2}-\d{2}) or "other".
fasta_to_dataframe(fasta_file) ==
    [i \in 1..Len(fasta_file) |->
        [Header |-> fasta_file[i].Header, Sequence |-> fasta_file[i].Sequence,
         Length |-> Len(fasta_file[i].Sequence)]]

\* _RE.search(header).group(0): the first token of the kind, or None
FirstOfKind(header, kind) ==
    LET hits == SelectSeq(header, LAMBDA t : t.kind = kind)
    IN  IF hits = <<>> THEN None ELSE Some(Head(hits).text)

extract_epi_and_date(header) == <<FirstOfKind(header, "epi"), FirstOfKind(header, "date")>>

annotate_epi_and_date(df) ==
    LET out == [i \in 1..Len(df) |->
                  WithColumn(WithColumn(df[i], "EPI", extract_epi_and_date(df[i].Header)[1]),
                             "Date", extract_epi_and_date(df[i].Header)[2])]
    IN  SelectSeq(out, LAMBDA r : ~IsNone(r.EPI))

\* df[cols]: the rows restricted to the named columns
Project(df, cols) == [i \in 1..Len(df) |-> [c \in cols |-> df[i][c]]]

\* a CSV file / data frame read from one: its column names and its rows
Table(cols, rows) == [columns |-> cols, rows |-> rows]

---------------------------------------------------------------------------
(* pandas merge and groupby as run_merge uses them *)

\* a left join: a left row without a match is kept, its Stalk_length missing
MatchesOf_left_join(l, right) ==
    LET hits == SelectSeq(right, LAMBDA r : r.EPI = l.EPI)
    IN  IF hits = <<>> THEN <<WithColumn(l, "Stalk_length", None)>>
        ELSE [k \in 1..Len(hits) |-> WithColumn(l, "Stalk_length", hits[k].Stalk_length)]

\* the rows one left row contributes to an inner join, in right-row order
MatchesOf(l, right) ==
    LET hits == SelectSeq(right, LAMBDA r : r.EPI = l.EPI)
    IN  [k \in 1..Len(hits) |-> WithColumn(l, "Stalk_length", hits[k].Stalk_length)]

\* left rows in order, each with its matches
RECURSIVE JoinLeftOrder(_, _)
JoinLeftOrder(left, right) ==
    IF left = <<>> THEN <<>>
    ELSE MatchesOf(Head(left), right) \o JoinLeftOrder(Tail(left), right)

\* the distinct keys of the left rows in order of first appearance
RECURSIVE KeysInOrder(_)
KeysInOrder(left) ==
    IF left = <<>> THEN <<>>
    ELSE <<Head(left).EPI>> \o
         KeysInOrder(SelectSeq(Tail(left), LAMBDA r : r.EPI # Head(left).EPI))

\* key groups in order of first appearance on the left, left-major inside a group
RECURSIVE JoinKeyGroups(_, _, _)
JoinKeyGroups(keys, left, right) ==
    IF keys = <<>> THEN <<>>
    ELSE JoinLeftOrder(SelectSeq(left, LAMBDA r : r.EPI = Head(keys)), right)
         \o JoinKeyGroups(Tail(keys), left, right)

\* the keys of the left rows, ascending ("A" < "B" < "C" < "D")
SortedKeys(left) ==
    SelectSeq(<<"A", "B", "C", "D">>, LAMBDA k : \E i \in 1..Len(left) : left[i].EPI = k)

\* a join with sort=True: rows ascending by key
merge_inner_sorted(left, right, order) == JoinKeyGroups(SortedKeys(left), left, right)

\* ha.merge(na[["EPI","Stalk_length"]], on="EPI", how="inner"): sort=False keeps
\* the order of the left keys; pandas releases differ in what that means for a
\* key repeated on the left ("left_rows": left row order, "key_groups": rows
\* of one key together)
merge_inner(left, right, order) ==
    IF order = "left_rows" THEN JoinLeftOrder(left, right)
    ELSE JoinKeyGroups(KeysInOrder(left), left, right)

PairLeq(p, q) == p[1] < q[1] \/ (p[1] = q[1] /\ p[2] <= q[2])

\* the elements of a set of pairs, ascending
RECURSIVE SortPairs(_)
SortPairs(S) ==
    IF S = {} THEN <<>>
    ELSE LET m == CHOOSE x \in S : \A y \in S : PairLeq(x, y)
         IN  <<m>> \o SortPairs(S \ {m})

\* a count per merged row instead of per group
groupby_size_per_row(merged) ==
    [g \in 1..Len(merged) |->
        [Stalk_length |-> merged[g].Stalk_length, GLS_count |-> merged[g].GLS_count,
         Frequency |-> 1]]

\* merged.groupby(["Stalk_length","GLS_count"]).size()
\*       .reset_index(name="Frequency").sort_values(["Stalk_length","GLS_count"])
groupby_size(merged) ==
    LET KeyOf(r) == <<r.Stalk_length, r.GLS_count>>
        groups == SortPairs({KeyOf(merged[i]) : i \in 1..Len(merged)})
    IN  [g \in 1..Len(groups) |->
            [Stalk_length |-> groups[g][1], GLS_count |-> groups[g][2],
             Frequency |-> Cardinality({i \in 1..Len(merged) : KeyOf(merged[i]) = groups[g]})]]

---------------------------------------------------------------------------
(* write_audit_log *)

\* vars(args): the attributes of the Namespace in the order argparse sets them
NamespaceKeys(cmd) ==
    CASE cmd = "na" ->
           <<"log_level", "cmd", "fasta", "begin_regex", "end_regex", "start_offset",
             "end_offset", "drop_first", "min_date", "max_date", "out", "audit", "func">>
      [] cmd = "ha" ->
           <<"log_level", "cmd", "fasta", "min_date", "max_date", "out", "audit", "func">>
      [] cmd = "merge" ->
           <<"log_level", "cmd", "ha", "na", "out", "counts", "audit", "func">>

\* the Python type of each attribute's value (Optional[str] values are "str")
TypeOfArg(key) ==
    CASE key \in {"start_offset", "end_offset"} -> "int"
      [] key = "drop_first" -> "bool"
      [] key = "func" -> "function"
      [] OTHER -> "str"

\* what json's default encoder accepts
JsonSerializable(type) == type \in {"str", "int", "float", "bool", "NoneType", "dict", "list"}

\* the keys json.dump writes before it meets a value it cannot encode
RECURSIVE EncodedPrefix(_)
EncodedPrefix(keys) ==
    IF keys = <<>> THEN <<>>
    ELSE IF JsonSerializable(TypeOfArg(Head(keys)))
         THEN <<Head(keys)>> \o EncodedPrefix(Tail(keys))
         ELSE <<>>

\* open(path, "w") truncates the file, json.dump writes chunk by chunk; a
\* TypeError from the encoder leaves what was written so far and propagates
write_audit_log(args) ==
    LET keys == NamespaceKeys(args.cmd)
        done == EncodedPrefix(keys)
        ok   == Len(done) = Len(keys)
        text == [timestamp |-> "now", cmd |-> args.cmd,
                 args |-> [i \in 1..Len(done) |-> <<done[i], args[done[i]]>>],
                 complete |-> ok]
    IN  IF ok THEN [raised |-> FALSE, type |-> "", msg |-> "", value |-> text]
        ELSE [raised |-> TRUE, type |-> "TypeError",
              msg |-> "Object of type function is not JSON serializable", value |-> text]

---------------------------------------------------------------------------
(* Subcommands.  Each yields what the invocation leaves behind: the files   *)
(* written (None: not written), the exit status and the fatal message.      *)

Outcome(out, counts, audit, code, msg) ==
    [out |-> out, counts |-> counts, audit |-> audit, exit_code |-> code, err |-> msg,
     bounds |-> None]

\* sys.exit(msg) and an uncaught exception both end the process with status 1
Fatal(out, counts, audit, msg) == Outcome(out, counts, audit, 1, msg)

\* "if a.audit: write_audit_log(a.audit, a)" as the last statement of a stage
\* that has written out (and counts)
AuditAndFinish(args, out, counts) ==
    IF TruthyPath(args.audit)
    THEN LET w == write_audit_log(args)
         IN  IF w.raised THEN Fatal(out, counts, Some(w.value), w.type)
             ELSE Outcome(out, counts, Some(w.value), 0, "")
    ELSE Outcome(out, counts, None, 0, "")

\* df[cols].to_csv(path, index=False); the EPI column holds plain strings
to_csv(df, cols) ==
    Table(cols, [i \in 1..Len(df) |->
                    [c \in cols |-> IF c = "EPI" THEN Val(df[i].EPI) ELSE df[i][c]]])

run_na(args, fasta) ==
    LET df == filter_by_date(annotate_epi_and_date(fasta_to_dataframe(fasta)),
                             args.min_date, args.max_date)
    IN  IF df = <<>> THEN Fatal(None, None, None, "[NA] No valid NA sequences.")
        ELSE LET ref_seq == df[1].Sequence
                 b == find_stalk_bounds(ref_seq, args.begin_regex, args.end_regex,
                                        args.start_offset, args.end_offset)
             IN  IF b.raised THEN Fatal(None, None, None, b.type)
                 ELSE LET kept == IF args.drop_first THEN Tail(df) ELSE df
                          res  == extract_stalk_lengths(kept, b.value[1], b.value[2])
                      IN  [AuditAndFinish(args, Some(to_csv(res, {"EPI", "Date", "Stalk_length"})), None)
                              EXCEPT !.bounds = Some(b.value)]

run_ha(args, fasta) ==
    LET df == filter_by_date(annotate_epi_and_date(fasta_to_dataframe(fasta)),
                             args.min_date, args.max_date)
    IN  IF df = <<>> THEN Fatal(None, None, None, "[HA] No valid HA sequences.")
        ELSE LET gls == count_gls_motifs([i \in 1..Len(df) |-> df[i].Sequence])
                 res == [i \in 1..Len(df) |-> WithColumn(df[i], "GLS_count", gls[i])]
             IN  AuditAndFinish(args, Some(to_csv(res, {"EPI", "Date", "GLS_count"})), None)

run_merge(args, ha, na, order) ==
    LET miss == ({"EPI", "GLS_count"} \ ha.columns) \cup ({"EPI", "Stalk_length"} \ na.columns)
    IN  IF miss # {} THEN Fatal(None, None, None, "[MERGE] Missing columns")
        ELSE LET merged == merge_inner(ha.rows, Project(na.rows, {"EPI", "Stalk_length"}), order)
                 out    == Some(Table(ha.columns \cup {"Stalk_length"}, merged))
                 counts == IF TruthyPath(args.counts)
                           THEN Some(Table({"Stalk_length", "GLS_count", "Frequency"},
                                           groupby_size(merged)))
                           ELSE None
             IN  AuditAndFinish(args, out, counts)

---------------------------------------------------------------------------
(* Input domains *)

\* all strings over an alphabet up to a length
Strings(alphabet, n) == UNION {[1..k -> alphabet] : k \in 0..n}

\* all lists of at most n elements of S
Lists(S, n) == UNION {[1..k -> S] : k \in 0..n}

Motifs == {<<>>, <<"m">>, <<"V">>, <<"M", "v">>, <<"K">>}

FindCalls ==
    {[fn |-> "find_stalk_bounds", reference_seq |-> r, begin_regex |-> b,
      end_regex |-> e, start_offset |-> so, end_offset |-> eo] :
        r \in Strings({"M", "V", "v"}, MaxRefLen), b \in Motifs, e \in Motifs,
        so \in -MaxOffset..MaxOffset, eo \in -MaxOffset..MaxOffset}

ExtractCalls ==
    {c \in [fn : {"extract_stalk_lengths"},
            df : Lists([Sequence : Strings({"A", "-"}, MaxSeqLen)], 2),
            stalk_start : -MaxOffset..MaxSeqLen,
            stalk_end : (1 - MaxOffset)..(MaxSeqLen + 1)] :
        c.stalk_start < c.stalk_end}

NPSNAT == <<"N", "P", "S", "N", "A", "T">>
NASNCT == <<"N", "A", "S", "N", "C", "T">>

GlsCalls ==
    {[fn |-> "count_gls_motifs", sequences |-> <<s>>] :
        s \in Strings({"N", "n", "P", "p", "S", "t", "A", "-"}, MaxGlsLen)}
    \cup {[fn |-> "count_gls_motifs", sequences |-> <<NPSNAT, NASNCT>>],
          [fn |-> "count_gls_motifs", sequences |-> <<<<"N", "-", "P", "S", "N", "-", "A", "T">>>>]}

\* date strings of a fixed width, as digit values
ShortDates == [1..2 -> {0, 1}]
OptDates(D) == {None} \cup {Some(d) : d \in D}

FilterCalls ==
    [fn : {"filter_by_date"}, df : Lists([Date : OptDates(ShortDates)], MaxDfRows),
     min_date : OptDates(ShortDates), max_date : OptDates(ShortDates)]

Calls == FindCalls \cup ExtractCalls \cup GlsCalls \cup FilterCalls

\* the sequences and headers of the documented NA scenario
MKTAY___VN == <<"M", "K", "T", "A", "Y", "-", "-", "-", "V", "N">>
MKTAYKK_VN == <<"M", "K", "T", "A", "Y", "K", "K", "-", "V", "N">>
D2021_01_01 == <<2, 0, 2, 1, 0, 1, 0, 1>>
D2020_06_30 == <<2, 0, 2, 0, 0, 6, 3, 0>>

Tok(kind, text) == [kind |-> kind, text |-> text]

Headers ==
    {<<Tok("epi", "EPI_ISL_100"), Tok("date", D2021_01_01)>>,
     <<Tok("epi", "EPI_ISL_200"), Tok("date", D2020_06_30)>>,
     <<Tok("other", "A/duck/1"), Tok("epi", "EPI_ISL_300")>>,
     <<Tok("other", "A/duck/2"), Tok("date", D2021_01_01)>>}

NaFastas ==
    Lists([Header : Headers, Sequence : {MKTAY___VN, MKTAYKK_VN}], MaxRecords)

HaFastas ==
    Lists([Header : Headers, Sequence : {NPSNAT, NASNCT}], MaxRecords)

Paths(p) == {None, Some(p)}

NaArgs ==
    [log_level : {"INFO"}, cmd : {"na"}, fasta : {"na.fasta"},
     begin_regex : {<<"M", "K", "T">>, <<"V", "N">>},
     end_regex : {<<"V", "N">>, <<"X">>},
     start_offset : {0}, end_offset : {0, 1}, drop_first : BOOLEAN,
     min_date : {None, Some(D2021_01_01)}, max_date : {None, Some(D2020_06_30)},
     out : {"na.csv"}, audit : Paths("audit.json"), func : {"run_na"}]

HaArgs ==
    [log_level : {"INFO"}, cmd : {"ha"}, fasta : {"ha.fasta"},
     min_date : {None, Some(D2021_01_01)}, max_date : {None, Some(D2020_06_30)},
     out : {"ha.csv"}, audit : Paths("audit.json"), func : {"run_ha"}]

MergeArgs ==
    [log_level : {"INFO"}, cmd : {"merge"}, ha : {"ha.csv"}, na : {"na.csv"},
     out : {"merged.csv"}, counts : Paths("counts.csv"), audit : Paths("audit.json"),
     func : {"run_merge"}]

HaRows == [EPI : {"A", "B", "C"}, Date : {None}, GLS_count : {2, 3}]
NaRows == [EPI : {"B", "D"}, Date : {None}, Stalk_length : {10, 11}]

HaRow(e, g) == [EPI |-> e, Date |-> None, GLS_count |-> g]
NaRow(e, l) == [EPI |-> e, Date |-> None, Stalk_length |-> l]

HaColumns == {"EPI", "Date", "GLS_count"}
NaColumns == {"EPI", "Date", "Stalk_length"}

\* the tables of the documented join and aggregation scenarios, and tables
\* that lack a required column
HaTables ==
    {Table(HaColumns, rows) : rows \in Lists(HaRows, MaxCsvRows)}
    \cup {Table(HaColumns, <<HaRow("A", 2), HaRow("B", 2), HaRow("C", 3)>>),
          Table(HaColumns, <<HaRow("C", 3), HaRow("A", 2), HaRow("B", 2)>>),
          Table({"EPI", "Date"}, <<>>)}

NaTables ==
    {Table(NaColumns, rows) : rows \in Lists(NaRows, MaxCsvRows)}
    \cup {Table(NaColumns, <<NaRow("B", 10), NaRow("C", 11), NaRow("D", 10)>>),
          Table(NaColumns, <<NaRow("A", 10), NaRow("B", 10), NaRow("C", 11)>>),
          Table({"EPI", "Date"}, <<>>)}

NoFiles == [fasta |-> None, ha |-> None, na |-> None,
            out |-> None, counts |-> None, audit |-> None]

---------------------------------------------------------------------------
(* The pure functions, each applied to one call *)

NoArgs == [cmd |-> "none"]

InitFn ==
    /\ pc = "call"
    /\ call \in Calls
    /\ ret = None
    /\ a = NoArgs
    /\ files = NoFiles
    /\ exit_code = -1
    /\ err = ""
    /\ stalk_bounds = None
    /\ join_order = "left_rows"

Returned(v) ==
    /\ ret' = v
    /\ pc' = "returned"
    /\ UNCHANGED <<call, a, files, exit_code, err, stalk_bounds, join_order>>

FindStalkBounds ==
    /\ pc = "call" /\ call.fn = "find_stalk_bounds"
    /\ Returned(find_stalk_bounds(call.reference_seq, call.begin_regex, call.end_regex,
                                  call.start_offset, call.end_offset))

ExtractStalkLengths ==
    /\ pc = "call" /\ call.fn = "extract_stalk_lengths"
    /\ Returned(extract_stalk_lengths(call.df, call.stalk_start, call.stalk_end))

CountGlsMotifs ==
    /\ pc = "call" /\ call.fn = "count_gls_motifs"
    /\ Returned(count_gls_motifs(call.sequences))

FilterByDate ==
    /\ pc = "call" /\ call.fn = "filter_by_date"
    /\ Returned(filter_by_date(call.df, call.min_date, call.max_date))

NextFn == FindStalkBounds \/ ExtractStalkLengths \/ CountGlsMotifs \/ FilterByDate

SpecFn == InitFn /\ [][NextFn]_vars

---------------------------------------------------------------------------
(* One invocation of the command line: main() dispatches on args.cmd *)

NoCall == [fn |-> "none"]

Init ==
    /\ pc = "main"
    /\ call = NoCall
    /\ ret = None
    /\ exit_code = -1
    /\ err = ""
    /\ stalk_bounds = None
    /\ \/ /\ a \in NaArgs
          /\ \E f \in NaFastas : files = [NoFiles EXCEPT !.fasta = Some(f)]
          /\ join_order = "left_rows"
       \/ /\ a \in HaArgs
          /\ \E f \in HaFastas : files = [NoFiles EXCEPT !.fasta = Some(f)]
          /\ join_order = "left_rows"
       \/ /\ a \in MergeArgs
          /\ \E h \in HaTables, n \in NaTables :
                files = [NoFiles EXCEPT !.ha = Some(h), !.na = Some(n)]
          /\ join_order \in {"left_rows", "key_groups"}

\* the process ends: the files it wrote, its exit status and message
Exit(o) ==
    /\ files' = [files EXCEPT !.out = o.out, !.counts = o.counts, !.audit = o.audit]
    /\ exit_code' = o.exit_code
    /\ err' = o.err
    /\ stalk_bounds' = o.bounds
    /\ pc' = "exit"
    /\ UNCHANGED <<call, ret, a, join_order>>

RunNa ==
    /\ pc = "main" /\ a.cmd = "na"
    /\ Exit(run_na(a, Val(files.fasta)))

RunHa ==
    /\ pc = "main" /\ a.cmd = "ha"
    /\ Exit(run_ha(a, Val(files.fasta)))

RunMerge ==
    /\ pc = "main" /\ a.cmd = "merge"
    /\ Exit(run_merge(a, Val(files.ha), Val(files.na), join_order))

Next == RunNa \/ RunHa \/ RunMerge

Spec == Init /\ [][Next]_vars

---------------------------------------------------------------------------
(* Properties of the pure functions, checked under SpecFn *)

FoldStr(x) == [i \in 1..Len(x) |-> Fold(x[i])]

\* the 0-based positions at which pat occurs in s, ignoring case
Occurrences(pat, s) ==
    {p \in 0..Len(s) : /\ p + Len(pat) <= Len(s)
                       /\ FoldStr(SubSeq(s, p + 1, p + Len(pat))) = FoldStr(pat)}

Least(S) == CHOOSE x \in S : \A y \in S : x <= y

AfterCall(fn) == pc = "returned" /\ call.fn = fn

\* C1: find_stalk_bounds either returns (start, end) with start = end position
\* of the first begin_motif match + start_offset, end = start position of the
\* first end_motif match + end_offset and start < end, or raises: exactly when
\* a motif is absent or the computed start >= end.
C1_StalkInterval ==
    AfterCall("find_stalk_bounds") =>
        LET B == Occurrences(call.begin_regex, call.reference_seq)
            E == Occurrences(call.end_regex, call.reference_seq)
        IN  IF B = {} \/ E = {} THEN ret.raised /\ ret.type = "ValueError"
            ELSE LET start == Least(B) + Len(call.begin_regex) + call.start_offset
                     end   == Least(E) + call.end_offset
                 IN  IF start >= end THEN ret.raised /\ ret.type = "ValueError"
                     ELSE ~ret.raised /\ ret.value = <<start, end>>
                          /\ ret.value[1] < ret.value[2]

\* an interval is returned for a begin motif that occurs more than once, with
\* both offsets in play
C1_Witness ==
    /\ AfterCall("find_stalk_bounds")
    /\ ~ret.raised
    /\ Cardinality(Occurrences(call.begin_regex, call.reference_seq)) > 1
    /\ Len(call.begin_regex) = 2
    /\ call.start_offset # 0 /\ call.end_offset # 0

\* s with one gap character inserted so that it sits at 0-based position p
InsertGap(s, p) == SubSeq(s, 1, p) \o <<"-">> \o SubSeq(s, p + 1, Len(s))

\* rows i and j of the frame: j is i with a gap inserted at position p inside
\* the interval [stalk_start, stalk_end)
GapInserted(i, j, p) ==
    /\ 0 <= call.stalk_start /\ call.stalk_start <= p /\ p < call.stalk_end
    /\ p <= Len(call.df[i].Sequence)
    /\ call.df[j].Sequence = InsertGap(call.df[i].Sequence, p)

\* the character a gap inserted inside the interval pushes out of it, if any,
\* is a residue
PushesResidueOut(i) ==
    /\ call.stalk_end <= Len(call.df[i].Sequence)
    /\ call.df[i].Sequence[call.stalk_end] # "-"

\* C3 as stated: inserting a gap inside the interval of a sequence leaves the
\* stalk_length reported over the same interval unchanged.
C3_GapInvariant_Original ==
    AfterCall("extract_stalk_lengths") =>
        \A i, j \in 1..Len(call.df) : \A p \in 0..MaxSeqLen :
            GapInserted(i, j, p) => ret[j].Stalk_length = ret[i].Stalk_length

\* C3 amended: inserting one gap inside the interval [start, end), start >= 0,
\* never raises the stalk_length reported over the same interval: it leaves it
\* unchanged when the character pushed out of the interval (the one at end-1)
\* is a gap or does not exist, and lowers it by one when that is a residue.
C3_GapInsertion ==
    AfterCall("extract_stalk_lengths") =>
        \A i, j \in 1..Len(call.df) : \A p \in 0..MaxSeqLen :
            GapInserted(i, j, p) =>
                ret[j].Stalk_length =
                    ret[i].Stalk_length - (IF PushesResidueOut(i) THEN 1 ELSE 0)

\* both cases occur: a gap insertion that keeps the length of a non-empty
\* stalk and one that lowers it
C3_Witness ==
    /\ AfterCall("extract_stalk_lengths")
    /\ \E i, j \in 1..Len(call.df) : \E p \in 0..MaxSeqLen :
          /\ GapInserted(i, j, p)
          /\ PushesResidueOut(i)
          /\ ret[j].Stalk_length = ret[i].Stalk_length - 1
          /\ ret[j].Stalk_length > 0

\* the gap-stripped sequence
Residues(seq) ==
    LET keep == {i \in 1..Len(seq) : seq[i] # "-"}
        Nth(k) == CHOOSE i \in keep : Cardinality({m \in keep : m < i}) = k - 1
    IN  [k \in 1..Cardinality(keep) |-> seq[Nth(k)]]

\* N, any residue except P, then S or T, at 1-based position q of s
Sequon(s, q) ==
    /\ q + 2 <= Len(s)
    /\ s[q] \in {"N", "n"}
    /\ s[q + 1] \notin {"P", "p"}
    /\ s[q + 2] \in {"S", "s", "T", "t"}

\* the matches of a left-to-right non-overlapping scan: a position matches iff
\* the pattern occurs there and neither of the two positions before it matched
ScanMatches(s) ==
    CHOOSE M \in SUBSET (1..Len(s)) :
        \A q \in 1..Len(s) :
            q \in M <=> (Sequon(s, q) /\ (q - 1) \notin M /\ (q - 2) \notin M)

\* C4: count_gls_motifs returns, for every sequence, the number of matches of
\* a left-to-right non-overlapping scan of the gap-stripped sequence for
\* N, not P, S or T; "NPSNAT" yields 1 and "NASNCT" yields 2.
C4_GlsCount ==
    AfterCall("count_gls_motifs") =>
        /\ Len(ret) = Len(call.sequences)
        /\ \A i \in 1..Len(ret) :
              /\ ret[i] = Cardinality(ScanMatches(Residues(call.sequences[i])))
              /\ call.sequences[i] = NPSNAT => ret[i] = 1
              /\ call.sequences[i] = NASNCT => ret[i] = 2

\* a gapped sequence with two overlapping occurrences of the pattern counts one
C4_Witness ==
    /\ AfterCall("count_gls_motifs")
    /\ \E i \in 1..Len(ret) :
          LET s == Residues(call.sequences[i])
          IN  /\ s # call.sequences[i]
              /\ \E q \in 1..Len(s) : Sequon(s, q) /\ Sequon(s, q + 1)
              /\ ret[i] = 1

\* x < y for strings, lexicographically
LexLess(x, y) ==
    \E k \in 1..Len(y) :
        /\ \A m \in 1..(k - 1) : m <= Len(x) /\ x[m] = y[m]
        /\ (k > Len(x) \/ x[k] < y[k])
        /\ k <= Len(x) + 1

LexLeq(x, y) == x = y \/ LexLess(x, y)

\* the record passes the date filter of the call
Passes(row) ==
    \/ row.Date = None
    \/ /\ (call.min_date = None \/ LexLeq(Val(call.min_date), Val(row.Date)))
       /\ (call.max_date = None \/ LexLeq(Val(row.Date), Val(call.max_date)))

\* C5: filter_by_date keeps exactly the records whose date is null or lies
\* within the inclusive, lexicographically compared bounds that are set, in
\* their original order.
C5_DateFilter ==
    AfterCall("filter_by_date") =>
        LET K == {i \in 1..Len(call.df) : Passes(call.df[i])}
        IN  /\ Len(ret) = Cardinality(K)
            /\ \E f \in [1..Len(ret) -> K] :
                  /\ \A j, k \in 1..Len(ret) : j < k => f[j] < f[k]
                  /\ \A j \in 1..Len(ret) : ret[j] = call.df[f[j]]

\* with both bounds set a record is dropped, a record with a null date is kept
\* and so are records dated exactly at either bound
C5_Witness ==
    /\ AfterCall("filter_by_date")
    /\ call.min_date # None /\ call.max_date # None /\ call.min_date # call.max_date
    /\ Len(ret) < Len(call.df)
    /\ \E j \in 1..Len(ret) : ret[j].Date = None
    /\ \E j \in 1..Len(ret) : ret[j].Date = call.max_date

---------------------------------------------------------------------------
(* Properties of the subcommands, checked under Spec *)

Done(cmd) == pc = "exit" /\ a.cmd = cmd

HasEpi(header) == \E i \in 1..Len(header) : header[i].kind = "epi"

\* the documented NA scenario: reference MKTAY---VN first, MKTAYKK-VN second,
\* begin_regex MKT, end_regex VN, offsets 0/0, no date bounds
NaScenario ==
    /\ Done("na")
    /\ LET fasta == Val(files.fasta)
       IN  /\ Len(fasta) = 2
           /\ fasta[1] = [Header |-> <<Tok("epi", "EPI_ISL_100"), Tok("date", D2021_01_01)>>,
                          Sequence |-> MKTAY___VN]
           /\ fasta[2].Sequence = MKTAYKK_VN /\ HasEpi(fasta[2].Header)
    /\ a.begin_regex = <<"M", "K", "T">> /\ a.end_regex = <<"V", "N">>
    /\ a.start_offset = 0 /\ a.end_offset = 0
    /\ a.min_date = None /\ a.max_date = None

LastRow(table) == table.rows[Len(table.rows)]

\* C2 as stated: in the NA scenario the resolved interval is (3, 7) and the
\* stalk_length reported for the second sequence is 4.
C2_Scenario_Original ==
    NaScenario =>
        /\ stalk_bounds = Some(<<3, 7>>)
        /\ files.out # None /\ LastRow(Val(files.out)).Stalk_length = 4

\* C2 amended: in the NA scenario the resolved interval is (3, 8), "VN"
\* starting at position 8, and the stalk_length reported for the second
\* sequence is 4, the ungapped length of residues[3:8] = "AYKK-".
C2_Scenario ==
    NaScenario =>
        /\ stalk_bounds = Some(<<3, 8>>)
        /\ files.out # None /\ LastRow(Val(files.out)).Stalk_length = 4

\* the scenario runs with both records reported
C2_Witness ==
    /\ NaScenario
    /\ ~a.drop_first
    /\ files.out # None /\ Len(Val(files.out).rows) = 2
    /\ Val(files.out).rows[1].EPI = "EPI_ISL_100"
    /\ Val(files.out).rows[2].Stalk_length = 4

Ids(rows) == {rows[i].EPI : i \in 1..Len(rows)}

\* both inputs of the merge have the columns it requires
ColumnsOk ==
    /\ {"EPI", "GLS_count"} \subseteq Val(files.ha).columns
    /\ {"EPI", "Stalk_length"} \subseteq Val(files.na).columns

\* C6: the sample identifiers of the merge output are exactly those present
\* in both the HA and the NA table.
C6_InnerJoin ==
    (Done("merge") /\ ColumnsOk) =>
        /\ files.out # None
        /\ Ids(Val(files.out).rows) = Ids(Val(files.ha).rows) \cap Ids(Val(files.na).rows)

\* HA {A,B,C} joined with NA {B,C,D} gives {B,C}
C6_Witness ==
    /\ Done("merge") /\ ColumnsOk
    /\ Ids(Val(files.ha).rows) = {"A", "B", "C"}
    /\ Ids(Val(files.na).rows) = {"B", "C", "D"}
    /\ files.out # None /\ Ids(Val(files.out).rows) = {"B", "C"}

RECURSIVE SumFrequency(_)
SumFrequency(rows) ==
    IF rows = <<>> THEN 0 ELSE Head(rows).Frequency + SumFrequency(Tail(rows))

\* C7: the counts output has one row per distinct (stalk_length, gls_count)
\* pair of the merged rows, its frequency the number of merged rows with that
\* pair, the rows ascending by (stalk_length, gls_count).
C7_Contingency ==
    (Done("merge") /\ files.counts # None) =>
        LET m == Val(files.out).rows
            c == Val(files.counts).rows
            PairOf(r) == <<r.Stalk_length, r.GLS_count>>
        IN  /\ {PairOf(c[i]) : i \in 1..Len(c)} = {PairOf(m[i]) : i \in 1..Len(m)}
            /\ \A i \in 1..Len(c) :
                  /\ c[i].Frequency = Cardinality({k \in 1..Len(m) : PairOf(m[k]) = PairOf(c[i])})
                  /\ c[i].Frequency > 0
            /\ SumFrequency(c) = Len(m)
            /\ \A i, j \in 1..Len(c) :
                  i < j => \/ c[i].Stalk_length < c[j].Stalk_length
                           \/ /\ c[i].Stalk_length = c[j].Stalk_length
                              /\ c[i].GLS_count < c[j].GLS_count

\* (10,2) twice and (11,3) once give (10,2,2) then (11,3,1)
C7_Witness ==
    /\ Done("merge") /\ files.counts # None
    /\ Len(Val(files.out).rows) = 3
    /\ Val(files.counts).rows =
          <<[Stalk_length |-> 10, GLS_count |-> 2, Frequency |-> 2],
            [Stalk_length |-> 11, GLS_count |-> 3, Frequency |-> 1]>>

EpiRank(e) == CASE e = "A" -> 1 [] e = "B" -> 2 [] e = "C" -> 3 [] e = "D" -> 4

\* the reorderings of a list
Reorderings(seq) ==
    {[i \in 1..Len(seq) |-> seq[f[i]]] :
        f \in {g \in [1..Len(seq) -> 1..Len(seq)] : \A i, j \in 1..Len(seq) : g[i] = g[j] => i = j}}

\* the merged rows the same invocation writes for reordered inputs
MergedOf(harows, narows) ==
    Val(run_merge(a, Table(Val(files.ha).columns, harows),
                  Table(Val(files.na).columns, narows), join_order).out).rows

\* the two lists hold the same rows with the same multiplicities
SameRows(x, y) ==
    \A v \in {x[i] : i \in 1..Len(x)} \cup {y[i] : i \in 1..Len(y)} :
        Cardinality({i \in 1..Len(x) : x[i] = v}) = Cardinality({i \in 1..Len(y) : y[i] = v})

FirstIndex(rows, e) == Least({i \in 1..Len(rows) : rows[i].EPI = e})

\* C8 as stated: whatever the order of the input rows, the merged table is
\* the same, its rows ascending by sample_id.
C8_MergeOrder_Original ==
    (Done("merge") /\ ColumnsOk) =>
        LET m == Val(files.out).rows
        IN  /\ \A h \in Reorderings(Val(files.ha).rows), n \in Reorderings(Val(files.na).rows) :
                  MergedOf(h, n) = m
            /\ \A i, j \in 1..Len(m) : i < j => EpiRank(m[i].EPI) <= EpiRank(m[j].EPI)

\* C8 amended: whatever the order of the input rows, the merged table holds
\* the same rows with the same multiplicities; its rows are not sorted by
\* sample_id but follow the HA table: sample_ids first appear in the merged
\* table in the order in which they first appear in the HA table.
C8_MergeOrder ==
    (Done("merge") /\ ColumnsOk) =>
        LET m == Val(files.out).rows
            h == Val(files.ha).rows
        IN  /\ \A hp \in Reorderings(h), np \in Reorderings(Val(files.na).rows) :
                  SameRows(MergedOf(hp, np), m)
            /\ \A e1, e2 \in Ids(m) :
                  FirstIndex(m, e1) < FirstIndex(m, e2) <=> FirstIndex(h, e1) < FirstIndex(h, e2)

\* a merged table whose rows are not ascending by sample_id
C8_Witness ==
    /\ Done("merge") /\ ColumnsOk
    /\ files.out # None
    /\ \E i, j \in 1..Len(Val(files.out).rows) :
          i < j /\ EpiRank(Val(files.out).rows[i].EPI) > EpiRank(Val(files.out).rows[j].EPI)

\* filtering (na, ha) or joining (merge) yields zero usable rows
ZeroUsableRows ==
    \/ /\ a.cmd \in {"na", "ha"}
       /\ filter_by_date(annotate_epi_and_date(fasta_to_dataframe(Val(files.fasta))),
                         a.min_date, a.max_date) = <<>>
    \/ /\ a.cmd = "merge" /\ ColumnsOk
       /\ Ids(Val(files.ha).rows) \cap Ids(Val(files.na).rows) = {}

\* C9: an invocation whose filtering or joining yields zero usable rows ends
\* fatally with a stage message and writes no output table.
C9_EmptyResultFatal ==
    (pc = "exit" /\ ZeroUsableRows) =>
        /\ exit_code # 0
        /\ err # ""
        /\ files.out = None

\* C10: an invocation of na, ha or merge whose stage succeeds and that is
\* given --audit writes a complete audit file (timestamp, subcommand, every
\* argument) and exits 0; without --audit no audit file is written.
C10_AuditRecord ==
    (pc = "exit" /\ files.out # None) =>
        IF a.audit # None
        THEN /\ files.audit # None
             /\ Val(files.audit).complete
             /\ Val(files.audit).cmd = a.cmd
             /\ {Val(files.audit).args[i][1] : i \in 1..Len(Val(files.audit).args)}
                   = DOMAIN a
             /\ exit_code = 0
        ELSE files.audit = None

====
